---- MODULE Spec2Model ----
(***************************************************************************)
(* Model of dynamic_temperature_fan.py: one DynamicTemperatureFan with its *)
(* ControlBangBang control object, the fan actuator it drives and the      *)
(* gcode commands that mutate it.                                          *)
(*                                                                         *)
(* Units.  Speeds are integers in hundredths (1.0 = 100, the 0.05          *)
(* significance threshold = 5).  Times are integers in quarter seconds     *)
(* (MAX_FAN_TIME = 5.0 s = 20, the hold 0.75 * MAX_FAN_TIME = 15).         *)
(* Temperatures are integer degrees.  Arithmetic is exact.                 *)
(*                                                                         *)
(* An optional gcode parameter is a sequence: <<>> when the parameter is   *)
(* omitted, <<v>> when it is given with value v.                           *)
(*                                                                         *)
(* A Python exception ends the handler where it is raised: assignments     *)
(* made before it stay, the rest of the handler does not run.  err holds   *)
(* the exception of the last operation ("" when it returned normally).     *)
(***************************************************************************)
EXTENDS Integers, Sequences, FiniteSets, TLC

\* ---------------------------------------------------------------- bounds
MaxTime == 16
TickStep == 8
MaxDemandTime == 44

\* ------------------------------------------------------ program constants
MAX_FAN_TIME == 20
SIGNIFICANT == 5
SPEED_MIN == 0
SPEED_MAX == 100

\* ------------------------------------------- configuration and input sets
ConfigMinTemp == {20}
ConfigMaxTemp == {60}
ConfigTargetTemp == {40}
ConfigMinSpeed == {0, 30}
ConfigMaxSpeed == {20, 100}
ConfigMaxDelta == {2}
\* ramp_down is read by calculate_fan_speed only; FALSE is its default
ConfigRampDown == {FALSE}
ReportTimeDelta == {1}
DemandReportTimeDelta == {1, 2}

SpeedInputs == {-10, 2, 50, 53, 150}
TempInputs == {38, 43}
TargetArgs == {<<>>, <<0>>, <<5>>, <<20>>, <<70>>}
MinSpeedArgs == {<<>>, <<30>>}
MaxSpeedArgs == {<<>>, <<20>>, <<150>>}
MinTempArgs == {<<>>, <<70>>}
MaxTempArgs == {<<>>, <<10>>}
EnableArgs == {<<>>, <<0>>, <<1>>}

\* ------------------------------------------------------------ error names
NoError == ""
TempRangeError == "Requested temperature out of range"
MinGtMaxSpeedError == "Requested min speed is greater than max speed"
MinGtMaxTempError == "Requested min temp is greater than max temp"
MinSpeedRangeError == "Requested min speed out of range"
MaxSpeedRangeError == "Requested max speed out of range"
AttributeError == "AttributeError"
TypeError == "TypeError"

VARIABLES
    now,              \* time of the reactor, read_time of the next call
    min_temp,
    max_temp,
    speed_delay,
    max_speed,
    min_speed,
    ramp_down,
    enable,
    last_temp,
    target_temp_conf,
    target_temp,
    max_delta,        \* ControlBangBang.max_delta
    heating,          \* ControlBangBang.heating
    next_speed_time,
    last_speed_value,
    fan_cmd,          \* last (time, value) received by fan.set_speed
    sent,             \* the last operation called fan.set_speed
    refresh,          \* ... with a value within 0.05 of the fan's last one
    op,               \* name of the last operation
    err               \* exception raised by the last operation

vars == <<now, min_temp, max_temp, speed_delay, max_speed, min_speed,
          ramp_down, refresh, enable,
          last_temp, target_temp_conf, target_temp, max_delta, heating,
          next_speed_time, last_speed_value, fan_cmd, sent, op, err>>

config == <<min_temp, max_temp, speed_delay, ramp_down, target_temp_conf,
            max_delta>>
limiter == <<next_speed_time, last_speed_value, fan_cmd>>

\* ---------------------------------------------------------------- helpers
Abs(x) == IF x < 0 THEN -x ELSE x

\* get_float called with the default 0.0 instead of the handler's default
Get_DefaultZero(param, default) == IF param = <<>> THEN 0 ELSE param[1]

\* gcmd.get_float(name, default) / gcmd.get_int(name, default)
Get(param, default) == IF param = <<>> THEN default ELSE param[1]

\* Instance attributes and methods of the two classes.
DynamicTemperatureFanAttrs ==
    {"name", "printer", "fan", "min_temp", "max_temp", "sensor",
     "speed_delay", "max_speed_conf", "max_speed", "min_speed_conf",
     "min_speed", "ramp_down_conf", "ramp_down", "enable", "last_temp",
     "last_temp_time", "target_temp_conf", "target_temp", "control",
     "next_speed_time", "last_speed_value",
     "set_speed", "temperature_callback", "get_temp", "get_min_speed",
     "get_max_speed", "get_status", "calculate_fan_speed",
     "cmd_SET_DYNAMIC_FAN_TARGET", "cmd_SET_DYNAMIC_TEMPERATURE_LIMITS",
     "cmd_SET_DYNAMIC_FAN_ENABLE", "set_temp", "set_min_speed",
     "set_max_speed", "set_enable"}

ControlBangBangAttrs ==
    {"temperature_fan", "max_delta", "heating", "temperature_callback"}

\* ------------------------------------------------------------------- Init
InitWith(report_time_delta) ==
    /\ now = 0
    /\ min_temp \in ConfigMinTemp
    /\ max_temp \in {t \in ConfigMaxTemp : t > min_temp}
    /\ speed_delay \in report_time_delta
    /\ ramp_down \in ConfigRampDown
    /\ max_speed \in {s \in ConfigMaxSpeed : s > SPEED_MIN /\ s <= SPEED_MAX}
    /\ min_speed \in {s \in ConfigMinSpeed : s >= SPEED_MIN /\ s <= SPEED_MAX}
    /\ enable = FALSE
    /\ last_temp = 0
    /\ target_temp_conf \in
           {t \in ConfigTargetTemp : t >= min_temp /\ t <= max_temp}
    /\ target_temp = target_temp_conf
    /\ max_delta \in {d \in ConfigMaxDelta : d > 0}
    /\ heating = TRUE
    /\ next_speed_time = 0
    /\ last_speed_value = 0
    /\ fan_cmd = [time |-> 0, value |-> 0]
    /\ sent = FALSE
    /\ refresh = FALSE
    /\ op = "init"
    /\ err = NoError

Init == InitWith(ReportTimeDelta)

\* ------------------------------------------------------------- set_speed
\* ClampSpeed without the target_temp <= 0 override of lines 69-70
ClampSpeed_NoTargetOverride(value) ==
    IF value <= 0 THEN 0
    ELSE IF value < min_speed THEN min_speed
    ELSE value

\* lines 65-70: the value after the <= 0, min_speed and target_temp rules
ClampSpeed(value) ==
    LET v == IF value <= 0 THEN 0
             ELSE IF value < min_speed THEN min_speed
             ELSE value
    IN IF target_temp <= 0 THEN 0 ELSE v

\* Suppressed for the very first command only: the zero test of line 71
\* replaced by "nothing has been forwarded yet"
Suppressed_FirstCommandOnly(read_time, value) ==
    /\ (read_time < next_speed_time \/ next_speed_time = 0)
    /\ Abs(value - last_speed_value) < SIGNIFICANT

\* Suppressed without the hold-window test of line 71
Suppressed_NoHoldWindow(read_time, value) ==
    /\ last_speed_value = 0
    /\ Abs(value - last_speed_value) < SIGNIFICANT

\* lines 71-73: the condition of the early return
Suppressed(read_time, value) ==
    /\ (read_time < next_speed_time \/ last_speed_value = 0)
    /\ Abs(value - last_speed_value) < SIGNIFICANT

\* the hold taken as the whole of MAX_FAN_TIME
HoldTime_WholeFanTime == MAX_FAN_TIME

\* line 77: 0.75 * MAX_FAN_TIME, the hold added to the scheduled time
HoldTime == (3 * MAX_FAN_TIME) \div 4

\* set_speed with line 78 left out: the forwarded value is not recorded
set_speed_NotRecorded(read_time, value) ==
    LET v == ClampSpeed(value)
        speed_time == read_time + speed_delay
    IN IF Suppressed(read_time, v)
       THEN /\ sent' = FALSE /\ refresh' = FALSE
            /\ UNCHANGED limiter
       ELSE /\ next_speed_time' = speed_time + HoldTime
            /\ UNCHANGED last_speed_value
            /\ fan_cmd' = [time |-> speed_time, value |-> v]
            /\ sent' = TRUE
            /\ refresh' = (Abs(fan_cmd'.value - fan_cmd.value) < SIGNIFICANT)

\* DynamicTemperatureFan.set_speed(read_time, value)
set_speed(read_time, value) ==
    LET v == ClampSpeed(value)
        speed_time == read_time + speed_delay
    IN IF Suppressed(read_time, v)
       THEN /\ sent' = FALSE /\ refresh' = FALSE
            /\ UNCHANGED limiter
       ELSE /\ next_speed_time' = speed_time + HoldTime
            /\ last_speed_value' = v
            /\ fan_cmd' = [time |-> speed_time, value |-> v]
            /\ sent' = TRUE
            /\ refresh' = (Abs(fan_cmd'.value - fan_cmd.value) < SIGNIFICANT)

\* A control algorithm calls temperature_fan.set_speed(read_time, value).
\* set_speed is the entry point the class offers to its control object; the
\* calls of lines 216 and 218 pass it any requested speed, so the request is
\* drawn from SpeedInputs and read_time is the current sample time.
SetSpeedCall(value) ==
    /\ set_speed(now, value)
    /\ op' = "set_speed"
    /\ err' = NoError
    /\ UNCHANGED <<now, config, max_speed, min_speed, enable, last_temp,
                   target_temp, heating>>

\* ------------------------------------------------------------------ time
Tick ==
    /\ now + TickStep <= MaxTime
    /\ now' = now + TickStep
    /\ op' = "tick"
    /\ err' = NoError
    /\ sent' = FALSE /\ refresh' = FALSE
    /\ UNCHANGED <<config, max_speed, min_speed, enable, last_temp,
                   target_temp, heating, limiter>>

\* ------------------------------------------------- calculate_fan_speed
\* lines 102-118: the shaped speed for a temperature, in hundredths
\* (truncated).  |x / d| is |x| / |d|; ramp-down is |x / d - 1| = |x - d| / |d|.
ShapedSpeed(temp) ==
    LET x == temp - min_temp
        d == target_temp - min_temp
    IN IF ramp_down
       THEN (Abs(x - d) * 100) \div Abs(d)
       ELSE (Abs(x) * 100) \div Abs(d)

\* lines 102-122: the speed calculate_fan_speed computes for a temperature.
\* The method itself cannot get that far: it reads
\* self.temperature_last_temp, read_time and self.target_fan, none of which
\* exists, and ControlBangBang calls it on itself (line 216).  The operator
\* is what the claims about the shaped speed are compared with.
calculate_fan_speed(temp) ==
    LET target_speed == ShapedSpeed(temp)
    IN IF target_speed <= min_speed THEN min_speed
       ELSE IF target_speed >= max_speed THEN max_speed
       ELSE target_speed

\* ---------------------------------------------------- periodic callback
\* ControlBangBang.temperature_callback(read_time, temp), lines 208-218.
\* Line 210 reads self.enable on the ControlBangBang object, whose __init__
\* (lines 203-206) sets temperature_fan, max_delta and heating only: the
\* read raises AttributeError before the transition rule and before any
\* set_speed call.
ControlTemperatureCallback(read_time, temp) ==
    /\ "enable" \notin ControlBangBangAttrs
    /\ err' = AttributeError
    /\ sent' = FALSE /\ refresh' = FALSE
    /\ UNCHANGED <<heating, limiter>>

\* DynamicTemperatureFan.temperature_callback(read_time, temp), lines 81-83
temperature_callback(read_time, temp) ==
    /\ last_temp' = temp
    /\ ControlTemperatureCallback(read_time, temp)
    /\ op' = "temperature_callback"
    /\ UNCHANGED <<now, config, max_speed, min_speed, enable, target_temp>>

\* --------------------------------------------------------------- setters
\* line 164: the condition under which set_temp raises
set_temp_raises(degrees) == degrees # 0 /\ degrees > max_temp

\* line 172: the condition under which set_min_speed raises
set_min_speed_raises(speed) ==
    speed # 0 /\ (speed < SPEED_MIN \/ speed > SPEED_MAX)

\* line 179: the condition under which set_max_speed raises
set_max_speed_raises(speed) ==
    speed # 0 /\ (speed < SPEED_MIN \/ speed > SPEED_MAX)

\* -------------------------------------------------------------- commands
\* the ordering test of line 132 left out
speed_order_raises_Missing(min_s, max_s) == FALSE

\* line 132: the condition under which the min/max ordering test raises
speed_order_raises(min_s, max_s) == min_s > max_s

\* cmd_SET_DYNAMIC_FAN_TARGET, lines 127-138
cmd_SET_DYNAMIC_FAN_TARGET(TARGET, MIN_SPEED, MAX_SPEED) ==
    LET temp == Get(TARGET, target_temp_conf)
        min_s == Get(MIN_SPEED, min_speed)
        max_s == Get(MAX_SPEED, max_speed)
    IN /\ op' = "SET_DYNAMIC_FAN_TARGET"
       /\ sent' = FALSE /\ refresh' = FALSE
       /\ UNCHANGED <<now, config, enable, last_temp, heating, limiter>>
       /\ IF set_temp_raises(temp)
          THEN /\ err' = TempRangeError
               /\ UNCHANGED <<target_temp, min_speed, max_speed>>
          ELSE /\ target_temp' = temp
               /\ IF speed_order_raises(min_s, max_s)
                  THEN /\ err' = MinGtMaxSpeedError
                       /\ UNCHANGED <<min_speed, max_speed>>
                  ELSE IF set_min_speed_raises(min_s)
                  THEN /\ err' = MinSpeedRangeError
                       /\ UNCHANGED <<min_speed, max_speed>>
                  ELSE /\ min_speed' = min_s
                       /\ IF set_max_speed_raises(max_s)
                          THEN /\ err' = MaxSpeedRangeError
                               /\ UNCHANGED max_speed
                          ELSE /\ max_speed' = max_s
                               /\ err' = NoError

\* cmd_SET_DYNAMIC_TEMPERATURE_LIMITS, lines 142-153.  Line 152 calls
\* self.set_min_temp, which the class does not define.
cmd_SET_DYNAMIC_TEMPERATURE_LIMITS(TARGET, MIN_TEMP, MAX_TEMP) ==
    LET temp == Get(TARGET, target_temp_conf)
        min_t == Get(MIN_TEMP, min_temp)
        max_t == Get(MAX_TEMP, max_temp)
    IN /\ op' = "SET_DYNAMIC_FAN_TEMPERATURE_LIMITS"
       /\ sent' = FALSE /\ refresh' = FALSE
       /\ UNCHANGED <<now, config, enable, last_temp, heating, limiter,
                      min_speed, max_speed>>
       /\ IF set_temp_raises(temp)
          THEN /\ err' = TempRangeError
               /\ UNCHANGED target_temp
          ELSE /\ target_temp' = temp
               /\ IF min_t > max_t
                  THEN err' = MinGtMaxTempError
                  ELSE /\ "set_min_temp" \notin DynamicTemperatureFanAttrs
                       /\ err' = AttributeError

\* set_enable(enable) for an integer argument, lines 185-194.  Line 186 is
\* false for 0 (falsy) and for 1 (in range); line 190 is true for both.
set_enable_int(e) ==
    IF e # 0 /\ (e < 0 \/ e > 1)
    THEN /\ err' = "NameError"
         /\ UNCHANGED enable
    ELSE IF e >= 0
    THEN /\ enable' = TRUE
         /\ err' = NoError
    ELSE /\ enable' = FALSE
         /\ "temperature_fan" \notin DynamicTemperatureFanAttrs
         /\ err' = AttributeError

\* set_enable(None): ENABLE omitted, get_int returns its default None
\* (line 160).  `None >= 0` raises TypeError under Python 3; under Python 2
\* it is False, so line 193 runs and line 194 raises AttributeError.
set_enable_None ==
    \/ /\ err' = TypeError
       /\ UNCHANGED enable
    \/ /\ enable' = FALSE
       /\ "temperature_fan" \notin DynamicTemperatureFanAttrs
       /\ err' = AttributeError

\* SET_DYNAMIC_FAN_ENABLE that stops the fan itself on ENABLE=0
cmd_SET_DYNAMIC_FAN_ENABLE_StopsFan(ENABLE) ==
    /\ op' = "SET_DYNAMIC_FAN_ENABLE"
    /\ UNCHANGED <<now, config, max_speed, min_speed, last_temp, target_temp,
                   heating>>
    /\ IF ENABLE = <<0>>
       THEN /\ enable' = FALSE
            /\ err' = NoError
            /\ next_speed_time' = now + speed_delay + HoldTime
            /\ last_speed_value' = 0
            /\ fan_cmd' = [time |-> now + speed_delay, value |-> 0]
            /\ sent' = TRUE
            /\ refresh' = (Abs(fan_cmd'.value - fan_cmd.value) < SIGNIFICANT)
       ELSE /\ sent' = FALSE /\ refresh' = FALSE
            /\ UNCHANGED limiter
            /\ IF ENABLE = <<>> THEN set_enable_None
               ELSE set_enable_int(ENABLE[1])

\* cmd_SET_DYNAMIC_FAN_ENABLE, lines 159-161
cmd_SET_DYNAMIC_FAN_ENABLE(ENABLE) ==
    /\ op' = "SET_DYNAMIC_FAN_ENABLE"
    /\ sent' = FALSE /\ refresh' = FALSE
    /\ UNCHANGED <<now, config, max_speed, min_speed, last_temp, target_temp,
                   heating, limiter>>
    /\ IF ENABLE = <<>> THEN set_enable_None ELSE set_enable_int(ENABLE[1])

\* ------------------------------------------------------------------ Next
SensorSample == \E temp \in TempInputs : temperature_callback(now, temp)

ControlRequest == \E value \in SpeedInputs : SetSpeedCall(value)

TargetCommand ==
    \E t \in TargetArgs, lo \in MinSpeedArgs, hi \in MaxSpeedArgs :
        cmd_SET_DYNAMIC_FAN_TARGET(t, lo, hi)

LimitsCommand ==
    \E t \in TargetArgs, lo \in MinTempArgs, hi \in MaxTempArgs :
        cmd_SET_DYNAMIC_TEMPERATURE_LIMITS(t, lo, hi)

EnableCommand == \E e \in EnableArgs : cmd_SET_DYNAMIC_FAN_ENABLE(e)

Next ==
    \/ Tick
    \/ SensorSample
    \/ ControlRequest
    \/ TargetCommand
    \/ LimitsCommand
    \/ EnableCommand

Spec == Init /\ [][Next]_vars

\* ================================================================ claims
CommandNames ==
    {"SET_DYNAMIC_FAN_TARGET", "SET_DYNAMIC_FAN_TEMPERATURE_LIMITS",
     "SET_DYNAMIC_FAN_ENABLE"}

\* C1 as stated: a set_speed call inside the hold window whose SUBMITTED
\* value differs from last_speed_value by less than 0.05 forwards nothing
\* and leaves next_speed_time and last_speed_value unchanged.
C1_SubmittedValueSuppressed ==
    [][\A v \in SpeedInputs :
          (/\ now < next_speed_time
           /\ Abs(v - last_speed_value) < SIGNIFICANT
           /\ SetSpeedCall(v))
          => (~sent' /\ UNCHANGED limiter)]_vars

\* C1 amended: a set_speed call inside the hold window whose value AFTER
\* the clamping of lines 65-70 differs from last_speed_value by less than
\* 0.05 forwards nothing and leaves next_speed_time, last_speed_value and
\* the actuator's last command unchanged.
C1_ClampedValueSuppressed ==
    [][\A v \in SpeedInputs :
          (/\ now < next_speed_time
           /\ Abs(ClampSpeed(v) - last_speed_value) < SIGNIFICANT
           /\ SetSpeedCall(v))
          => (~sent' /\ UNCHANGED limiter)]_vars

\* a call was suppressed inside the hold window (not by the zero sentinel)
C1_Witness ==
    /\ op = "set_speed"
    /\ ~sent
    /\ now < next_speed_time
    /\ last_speed_value # 0

\* C2: every value set_speed forwards to the actuator is 0 or lies in
\* [min_speed, max_speed].
C2_ForwardedInBounds ==
    [][(op' = "set_speed" /\ sent')
          => \/ fan_cmd'.value = 0
             \/ (min_speed <= fan_cmd'.value /\ fan_cmd'.value <= max_speed)]_vars

\* C3: in the control law a sample strictly inside the deadband never
\* changes the active state, a sample at or above target + deadband while
\* active makes it idle, a sample at or below target - deadband while idle
\* makes it active, and a sample on the side already taken changes nothing.
C3_Hysteresis ==
    [][(op' = "temperature_callback")
          => LET temp == last_temp'
                 hi == target_temp + max_delta
                 lo == target_temp - max_delta
             IN /\ (lo < temp /\ temp < hi) => heating' = heating
                /\ (heating /\ temp >= hi) => ~heating'
                /\ (~heating /\ temp <= lo) => heating'
                /\ (heating /\ temp <= lo) => heating'
                /\ (~heating /\ temp >= hi) => ~heating']_vars

\* C4: SET_DYNAMIC_FAN_ENABLE ENABLE=0 while the actuator runs at a nonzero
\* speed forwards a 0.0 command as part of the command, hold window or not.
C4_DisableForwardsZero ==
    [][(cmd_SET_DYNAMIC_FAN_ENABLE(<<0>>) /\ fan_cmd.value # 0)
          => (sent' /\ fan_cmd'.value = 0)]_vars

\* C5: after SET_DYNAMIC_FAN_ENABLE ENABLE=0 the enabled flag is false, it
\* stays false until another enable command, and while it is false no
\* sensor callback forwards a nonzero speed.
C5_DisabledUntilEnabled ==
    [][/\ cmd_SET_DYNAMIC_FAN_ENABLE(<<0>>) => ~enable'
       /\ (~enable /\ op' # "SET_DYNAMIC_FAN_ENABLE") => ~enable'
       /\ (~enable /\ op' = "temperature_callback" /\ sent')
             => fan_cmd'.value = 0]_vars

\* C6: a command that ends in an error leaves target_temp, min_speed,
\* max_speed, min_temp, max_temp and enable as they were before it.
C6_RejectedCommandChangesNothing ==
    [][(op' \in CommandNames /\ err' # NoError)
          => UNCHANGED <<target_temp, min_speed, max_speed, min_temp,
                         max_temp, enable>>]_vars

\* C7: a SET_DYNAMIC_FAN_TARGET command whose resulting min_speed would
\* exceed its resulting max_speed (an omitted one taking the current value)
\* ends in an error and leaves min_speed and max_speed unchanged.
C7_MinGtMaxRejected ==
    [][\/ op' # "SET_DYNAMIC_FAN_TARGET"
       \/ (err' # NoError /\ UNCHANGED <<min_speed, max_speed>>)
       \/ \A t \in TargetArgs, lo \in MinSpeedArgs, hi \in MaxSpeedArgs :
             ~(/\ Get(lo, min_speed) > Get(hi, max_speed)
               /\ cmd_SET_DYNAMIC_FAN_TARGET(t, lo, hi))]_vars

\* the ordering test of SET_DYNAMIC_FAN_TARGET has rejected a command
C7_Witness ==
    /\ op = "SET_DYNAMIC_FAN_TARGET"
    /\ err = MinGtMaxSpeedError

\* C8: min_speed <= max_speed in every reachable state.
C8_MinSpeedLeMaxSpeed == min_speed <= max_speed

\* C9: target_temp is <= 0 or lies in [min_temp, max_temp] in every
\* reachable state.
C9_TargetTempInRange ==
    \/ target_temp <= 0
    \/ (min_temp <= target_temp /\ target_temp <= max_temp)

\* C10: while target_temp <= 0 a set_speed call forwards no nonzero speed:
\* whatever it forwards is 0.0 and is recorded as last_speed_value, and a
\* call that forwards nothing leaves the limiter as it was.
C10_ZeroTargetForcesZero ==
    [][(target_temp <= 0 /\ op' = "set_speed")
          => /\ sent' => (fan_cmd'.value = 0 /\ last_speed_value' = 0)
             /\ ~sent' => UNCHANGED limiter]_vars

\* with target_temp <= 0 a call has stopped a running fan
C10_Witness ==
    /\ op = "set_speed"
    /\ target_temp <= 0
    /\ sent
    /\ fan_cmd.value = 0

\* C12: the hysteresis state machine is Idle after construction, and while
\* it is Idle a sample above target_temp - deadband keeps it Idle and
\* forwards no nonzero speed.
C12_StartsIdle ==
    /\ ~heating
    /\ [][(~heating /\ op' = "temperature_callback"
              /\ last_temp' > target_temp - max_delta)
            => (~heating' /\ (sent' => fan_cmd'.value = 0))]_vars

\* C13 as stated: a SET_DYNAMIC_FAN_TARGET or
\* SET_DYNAMIC_FAN_TEMPERATURE_LIMITS command that omits an argument leaves
\* the corresponding field at its pre-command value, target_temp included.
\* (Each conjunct reads "the field is as claimed, or this step is not a
\* command that omits its argument".)
C13_OmittedKeepsCurrent ==
    [][\/ op' \notin {"SET_DYNAMIC_FAN_TARGET",
                      "SET_DYNAMIC_FAN_TEMPERATURE_LIMITS"}
       \/ /\ \/ target_temp' = target_temp
             \/ /\ \A lo \in MinSpeedArgs, hi \in MaxSpeedArgs :
                       ~cmd_SET_DYNAMIC_FAN_TARGET(<<>>, lo, hi)
                /\ \A lo \in MinTempArgs, hi \in MaxTempArgs :
                       ~cmd_SET_DYNAMIC_TEMPERATURE_LIMITS(<<>>, lo, hi)
          /\ \/ min_speed' = min_speed
             \/ \A t \in TargetArgs, hi \in MaxSpeedArgs :
                   ~cmd_SET_DYNAMIC_FAN_TARGET(t, <<>>, hi)
          /\ \/ max_speed' = max_speed
             \/ \A t \in TargetArgs, lo \in MinSpeedArgs :
                   ~cmd_SET_DYNAMIC_FAN_TARGET(t, lo, <<>>)
          /\ \/ min_temp' = min_temp
             \/ \A t \in TargetArgs, hi \in MaxTempArgs :
                   ~cmd_SET_DYNAMIC_TEMPERATURE_LIMITS(t, <<>>, hi)
          /\ \/ max_temp' = max_temp
             \/ \A t \in TargetArgs, lo \in MinTempArgs :
                   ~cmd_SET_DYNAMIC_TEMPERATURE_LIMITS(t, lo, <<>>)]_vars

\* C13 amended: an omitted MIN_SPEED, MAX_SPEED, MIN_TEMP or MAX_TEMP leaves
\* its field at the pre-command value; an omitted TARGET sets target_temp
\* to the configured target_temp_conf, whatever an earlier command set.
C13_OmittedTargetResets ==
    [][\/ op' \notin {"SET_DYNAMIC_FAN_TARGET",
                      "SET_DYNAMIC_FAN_TEMPERATURE_LIMITS"}
       \/ /\ \/ target_temp' = target_temp_conf
             \/ /\ \A lo \in MinSpeedArgs, hi \in MaxSpeedArgs :
                       ~cmd_SET_DYNAMIC_FAN_TARGET(<<>>, lo, hi)
                /\ \A lo \in MinTempArgs, hi \in MaxTempArgs :
                       ~cmd_SET_DYNAMIC_TEMPERATURE_LIMITS(<<>>, lo, hi)
          /\ \/ min_speed' = min_speed
             \/ \A t \in TargetArgs, hi \in MaxSpeedArgs :
                   ~cmd_SET_DYNAMIC_FAN_TARGET(t, <<>>, hi)
          /\ \/ max_speed' = max_speed
             \/ \A t \in TargetArgs, lo \in MinSpeedArgs :
                   ~cmd_SET_DYNAMIC_FAN_TARGET(t, lo, <<>>)
          /\ \/ min_temp' = min_temp
             \/ \A t \in TargetArgs, hi \in MaxTempArgs :
                   ~cmd_SET_DYNAMIC_TEMPERATURE_LIMITS(t, <<>>, hi)
          /\ \/ max_temp' = max_temp
             \/ \A t \in TargetArgs, lo \in MinTempArgs :
                   ~cmd_SET_DYNAMIC_TEMPERATURE_LIMITS(t, lo, <<>>)]_vars

\* a SET_DYNAMIC_FAN_TARGET command without TARGET has been accepted: no
\* value of TargetArgs is the configured target, so only the omitted TARGET
\* leaves target_temp at target_temp_conf after an accepted command
C13_Witness ==
    /\ op = "SET_DYNAMIC_FAN_TARGET"
    /\ err = NoError
    /\ target_temp = target_temp_conf
    /\ \A t \in TargetArgs : t # <<target_temp_conf>>

\* C16: a set_speed(read_time, value) call that is not suppressed forwards
\* the command (read_time + speed_delay, clamped value), sets
\* next_speed_time to read_time + speed_delay + 0.75 * MAX_FAN_TIME and
\* last_speed_value to the clamped value; a clamped value at least 0.05
\* away from last_speed_value is forwarded, inside the hold window too.
\* (ExpectedClamp is the clamp of lines 65-70 written out for the claims)
ExpectedClamp(v) ==
    IF target_temp <= 0 \/ v <= 0 THEN 0
    ELSE IF v < min_speed THEN min_speed
    ELSE v

C16_ForwardedCommand ==
    [][op' = "set_speed" => \A v \in SpeedInputs :
          \/ /\ sent' => /\ fan_cmd' = [time |-> now + speed_delay,
                                        value |-> ExpectedClamp(v)]
                         /\ next_speed_time' =
                                now + speed_delay + (3 * MAX_FAN_TIME) \div 4
                         /\ last_speed_value' = ExpectedClamp(v)
             /\ Abs(ExpectedClamp(v) - last_speed_value) >= SIGNIFICANT => sent'
          \/ ~SetSpeedCall(v)]_vars

\* a 0.0 command has been forwarded inside the hold window of the nonzero
\* command before it (0.0 is only forwarded over a nonzero value, whose
\* hold cannot end before time HoldTime)
C16_Witness ==
    /\ op = "set_speed"
    /\ sent
    /\ fan_cmd.value = 0
    /\ fan_cmd.time < (3 * MAX_FAN_TIME) \div 4

\* C17: last_speed_value is the value of the last command the actuator
\* received (0 while it has received none).
C17_LastValueIsForwarded == last_speed_value = fan_cmd.value

\* a nonzero command has just been forwarded over an earlier one
C17_Witness ==
    /\ sent
    /\ fan_cmd.value # 0
    /\ fan_cmd.time > speed_delay

\* C18: no command handler changes the hysteresis flag, last_temp,
\* next_speed_time or last_speed_value; a step that changes one of them is
\* a sensor callback or a set_speed call made for it.
C18_CommandsLeaveControlState ==
    [][/\ op' \in CommandNames
             => UNCHANGED <<heating, last_temp, next_speed_time,
                            last_speed_value>>
       /\ ~(UNCHANGED <<heating, last_temp, next_speed_time,
                        last_speed_value>>)
             => op' \in {"temperature_callback", "set_speed"}]_vars

\* a command has run while the fan was being driven and a sample was held
C18_Witness ==
    /\ op \in CommandNames
    /\ last_speed_value # 0
    /\ last_temp # 0

\* C20: with last_speed_value = 0 a set_speed call whose clamped value is
\* below 0.05 is suppressed however far read_time is past next_speed_time,
\* and a 0.0 command is never forwarded to an actuator already at 0.0.
C20_ZeroSentinel ==
    [][/\ op' = "set_speed" => \A v \in SpeedInputs :
             \/ ~sent' /\ UNCHANGED limiter
             \/ ~(last_speed_value = 0 /\ ExpectedClamp(v) < SIGNIFICANT)
             \/ ~SetSpeedCall(v)
       /\ (sent' /\ fan_cmd'.value = 0) => fan_cmd.value # 0]_vars

\* after a 0.0 command and the end of its hold a call has been suppressed
C20_Witness ==
    /\ op = "set_speed"
    /\ ~sent
    /\ last_speed_value = 0
    /\ next_speed_time # 0
    /\ now >= next_speed_time

\* C11: a sample (t, T) that finds or makes an enabled controller active
\* requests the shaped speed clamped to [min_speed, max_speed], and the
\* rate limiter forwards it for time t + speed_delay (unless it suppresses
\* it as insignificant); (0, 38) with min_temp 20, target 40, ramp-up,
\* min_speed 0.3, max_speed 1.0 gives the command (0 + speed_delay, 0.9).
C11_ActiveRequestsShapedSpeed ==
    [][(/\ op' = "temperature_callback"
        /\ enable
        /\ heating'
        /\ target_temp > min_temp)
          => LET v == ClampSpeed(calculate_fan_speed(last_temp'))
             IN IF Suppressed(now, v)
                THEN ~sent'
                ELSE /\ sent'
                     /\ fan_cmd' = [time |-> now + speed_delay, value |-> v]]_vars

\* C14: no reachable state has an enabled, active controller whose
\* target_temp equals min_temp (the denominator of the shaped speed).
C14_NoZeroDenominator == ~(enable /\ heating /\ target_temp = min_temp)

\* C19: two consecutive forwarded commands whose values differ by less than
\* 0.05, the earlier one nonzero, are scheduled at least
\* 0.75 * MAX_FAN_TIME + speed_delay apart; a command forwarded inside the
\* hold window differs from the one before it by at least 0.05.
C19_AntiChatter ==
    [][(op' = "set_speed" /\ sent')
          => /\ (/\ fan_cmd.value # 0
                 /\ Abs(fan_cmd'.value - fan_cmd.value) < SIGNIFICANT)
                   => fan_cmd'.time - fan_cmd.time
                          >= (3 * MAX_FAN_TIME) \div 4 + speed_delay
             /\ now < next_speed_time
                   => Abs(fan_cmd'.value - fan_cmd.value) >= SIGNIFICANT]_vars

\* a nonzero command has been re-sent, within 0.05 of the one before it
C19_Witness ==
    /\ op = "set_speed"
    /\ sent
    /\ refresh
    /\ fan_cmd.value # 0

\* ------------------------------------------- periodic nonzero demand
\* The control law asks for a nonzero speed on every sample, and samples
\* are one report interval (speed_delay, at most 0.5 s) apart: each step is
\* the set_speed call of one sample, followed by the wait for the next.
DemandInputs == {v \in SpeedInputs : v > 0}

PeriodicDemand(value) ==
    /\ now + speed_delay <= MaxDemandTime
    /\ set_speed(now, value)
    /\ now' = now + speed_delay
    /\ op' = "set_speed"
    /\ err' = NoError
    /\ UNCHANGED <<config, max_speed, min_speed, enable, last_temp,
                   target_temp, heating>>

InitDemand == InitWith(DemandReportTimeDelta)

NextDemand == \E value \in DemandInputs : PeriodicDemand(value)

SpecDemand == InitDemand /\ [][NextDemand]_vars

\* C15 as stated: under a nonzero demand on every sample the first demand
\* is forwarded within MAX_FAN_TIME of being requested (the first sample is
\* at time 0), and consecutive forwarded commands are scheduled less than
\* MAX_FAN_TIME apart.
C15_DemandAlwaysRefreshed ==
    [][/\ now' > MAX_FAN_TIME => next_speed_time' # 0
       /\ (sent' /\ next_speed_time # 0)
             => fan_cmd'.time - fan_cmd.time < MAX_FAN_TIME]_vars

\* C15 amended: under a nonzero demand on every sample (target_temp > 0),
\* a demand whose clamped value is at least 0.05 is forwarded on its own
\* sample when nothing has been forwarded yet, and consecutive forwarded
\* commands are scheduled less than MAX_FAN_TIME apart.
C15_SignificantDemandRefreshed ==
    [][/\ \A v \in DemandInputs :
             \/ /\ sent'
                /\ fan_cmd'.time = now + speed_delay
             \/ ~(next_speed_time = 0 /\ ExpectedClamp(v) >= SIGNIFICANT)
             \/ ~PeriodicDemand(v)
       /\ (sent' /\ next_speed_time # 0)
             => fan_cmd'.time - fan_cmd.time < MAX_FAN_TIME]_vars

\* an unchanged demand has been re-sent after its hold ended
C15_Witness ==
    /\ op = "set_speed"
    /\ sent
    /\ refresh
    /\ fan_cmd.value # 0
    /\ fan_cmd.time > (3 * MAX_FAN_TIME) \div 4

====
